---- MODULE Spec2Model ----
(***************************************************************************)
(* xml2json: the conversion of a parsed XML node tree into a JSON value    *)
(* tree (src/xml2json.c).  Each C function of the conversion is one        *)
(* operator; the operators thread a record st that holds what the C code   *)
(* keeps in memory shared by all calls: the out-parameter `type` (one cell *)
(* owned by parse_xml_tree), the live heap allocations, and a log of the   *)
(* calls made.  The state machine is parse_xml_tree: read a document,      *)
(* convert it, encode and free the result.                                 *)
(***************************************************************************)
EXTENDS Integers, Sequences, FiniteSets, TLC

VARIABLES doc, pc, data, type, heap, walks, elems, projs, attrlog

vars == <<doc, pc, data, type, heap, walks, elems, projs, attrlog>>

(***************************************************************************)
(* Bounds of the model.                                                    *)
(***************************************************************************)
MaxNodes == 3     \* nodes below the root element, structural documents
MaxTextLen == 3   \* characters of a text node, text documents
MaxAttrs == 2     \* attributes of an element, attribute documents

(***************************************************************************)
(* enum xml_entry_type: the tags the conversion uses.                      *)
(***************************************************************************)
ENTRY_TYPE_NULL == 0
ENTRY_TYPE_STRING == 2
ENTRY_TYPE_OBJECT == 5

(***************************************************************************)
(* Values held behind a void* / JsonObject*: the NULL pointer, a C string  *)
(* (a sequence of character codes) and the JSON nodes.  One record shape   *)
(* for all of them; t is the kind.                                         *)
(***************************************************************************)
Ptr(t, s, elems_, members) == [t |-> t, s |-> s, elems |-> elems_, members |-> members]
NULL == Ptr("NULL", <<>>, <<>>, <<>>)
CStr(s) == Ptr("cstr", s, <<>>, <<>>)

\* json.h is not among the sources: the constructors make a fresh node (a
\* string node holds a copy of the characters), json_prepend_to_array puts an
\* element in front of the array's elements, json_append_member adds a
\* member, under a copy of the key, after the object's members.
json_null_obj == Ptr("Null", <<>>, <<>>, <<>>)
json_string_obj(v) == Ptr("String", v.s, <<>>, <<>>)
json_array_obj == Ptr("Array", <<>>, <<>>, <<>>)
json_new == Ptr("Object", <<>>, <<>>, <<>>)
json_prepend_to_array(array, v) == [array EXCEPT !.elems = <<v>> \o @]
json_append_member(obj, key, v) == [obj EXCEPT !.members = Append(@, <<key, v>>)]

RECURSIVE JsonSize(_)
SumSizes(vs) ==
    LET RECURSIVE sum(_)
        sum(i) == IF i > Len(vs) THEN 0 ELSE JsonSize(vs[i]) + sum(i + 1)
    IN sum(1)
\* number of JSON nodes json_free releases for v
JsonSize(v) ==
    CASE v.t = "Array" -> 1 + SumSizes(v.elems)
      [] v.t = "Object" -> 1 + SumSizes([i \in 1..Len(v.members) |-> v.members[i][2]])
      [] v.t \in {"Null", "String"} -> 1
      [] OTHER -> 0

(***************************************************************************)
(* The heap: how many allocations of each kind are live.                   *)
(***************************************************************************)
Heap0 == [entries |-> 0, cstr |-> 0, json |-> 0]
HeapAdd(hp, e, c, j) ==
    [entries |-> hp.entries + e, cstr |-> hp.cstr + c, json |-> hp.json + j]

(***************************************************************************)
(* xmlNode: kind, tag name, attributes, children, text content.            *)
(***************************************************************************)
XML_ELEMENT_NODE == "element"
XML_TEXT_NODE == "text"
XML_COMMENT_NODE == "comment"

Node(kind, name, attrs, children, hasContent, content) ==
    [kind |-> kind, name |-> name, attrs |-> attrs, children |-> children,
     hasContent |-> hasContent, content |-> content]
Element(name, attrs, children) == Node(XML_ELEMENT_NODE, name, attrs, children, FALSE, <<>>)
Text(content) == Node(XML_TEXT_NODE, "", <<>>, <<>>, TRUE, content)
TextNoContent == Node(XML_TEXT_NODE, "", <<>>, <<>>, FALSE, <<>>)
Comment == Node(XML_COMMENT_NODE, "", <<>>, <<>>, FALSE, <<>>)
Attr(name, children) == [name |-> name, children |-> children]

(***************************************************************************)
(* struct xml_htable: the entries in the order xml_htable_put received     *)
(* them.  htable.h is not among the sources; xml2json.c uses it through    *)
(* the interface of a chained hash map (init with a compare function,      *)
(* entry_init with a hash, put, get, get_next, remove, iter), extended     *)
(* with an ordered iterator and a per-entry count.  Modelled accordingly:  *)
(* a put links the new entry in front of the older entries of its key;     *)
(* the ordered iterator yields one entry per distinct key, the keys by     *)
(* first insertion; that entry is the head of its key's chain and its      *)
(* entry.count is the number of entries of the key; htable_get_next        *)
(* follows the chain to the next older entry.  The keys are compared and   *)
(* handed on as the byte strings that were put.                            *)
(***************************************************************************)
alloc_xml_htable_entry(key, value, ty) == [key |-> key, type |-> ty, value |-> value]

xml_htable_init == <<>>

htable_put(ht, e) == Append(ht, e)

SameKey(ht, i) == {j \in 1..Len(ht) : ht[j].key = ht[i].key}

SetMax(S) == CHOOSE x \in S : \A y \in S : y <= x

entry_count(ht, i) == Cardinality(SameKey(ht, i))

\* 0 stands for the NULL that ends the chain
htable_get_next(ht, i) ==
    LET older == {j \in SameKey(ht, i) : j < i}
    IN IF older = {} THEN 0 ELSE SetMax(older)

htable_iter_ordered(ht) ==
    LET idx == [i \in 1..Len(ht) |-> i]
        firsts == SelectSeq(idx, LAMBDA i : \A j \in SameKey(ht, i) : i <= j)
    IN [k \in 1..Len(firsts) |-> SetMax(SameKey(ht, firsts[k]))]

xml_htable_put(ht, key, value, ty) == htable_put(ht, alloc_xml_htable_entry(key, value, ty))

StringEntries(ht) == Cardinality({i \in 1..Len(ht) : ht[i].type = ENTRY_TYPE_STRING})

\* free_xml_htable_entry on every entry: the entry, its key, and its value
\* only when the entry's type is ENTRY_TYPE_STRING
xml_htable_free(ht, hp) == HeapAdd(hp, 0 - Len(ht), 0 - StringEntries(ht), 0)

(***************************************************************************)
(* xml_htable_to_json_obj                                                  *)
(***************************************************************************)
\* EntryJson with an empty object made where json_null_obj() is called
EntryJson_NullAsObject(e) ==
    IF e.type = ENTRY_TYPE_NULL THEN json_new
    ELSE IF e.type = ENTRY_TYPE_STRING THEN json_string_obj(e.value)
    ELSE e.value

\* the JSON node an entry contributes (lines 293-299, 304-311, 317-324)
EntryJson(e) ==
    IF e.type = ENTRY_TYPE_NULL THEN json_null_obj
    ELSE IF e.type = ENTRY_TYPE_STRING THEN json_string_obj(e.value)
    ELSE e.value

\* EntryArray without the htable_get_next loop of lines 303-312
EntryArray_HeadOnly(ht, e) == json_prepend_to_array(json_array_obj, EntryJson(ht[e]))

\* lines 291-312: the entry e, then every entry htable_get_next reaches
EntryArray(ht, e) ==
    LET RECURSIVE rest(_, _)
        rest(temp, array) ==
            LET nxt == htable_get_next(ht, temp)
            IN IF nxt = 0 THEN array
               ELSE rest(nxt, json_prepend_to_array(array, EntryJson(ht[nxt])))
    IN rest(e, json_prepend_to_array(json_array_obj, EntryJson(ht[e])))

\* ProjectFrom with the test of line 286 written count >= 1
RECURSIVE ProjectFrom_ArrayOfOne(_, _, _, _)
ProjectFrom_ArrayOfOne(ht, order, k, jobj) ==
    IF k > Len(order) THEN jobj
    ELSE LET e == order[k]
         IN IF entry_count(ht, e) >= 1
            THEN ProjectFrom_ArrayOfOne(ht, order, k + 1,
                             json_append_member(jobj, ht[e].key, EntryArray(ht, e)))
            ELSE ProjectFrom_ArrayOfOne(ht, order, k + 1,
                             json_append_member(jobj, ht[e].key, EntryJson(ht[e])))

\* lines 285-326: one member per entry the ordered iterator yields
RECURSIVE ProjectFrom(_, _, _, _)
ProjectFrom(ht, order, k, jobj) ==
    IF k > Len(order) THEN jobj
    ELSE LET e == order[k]
         IN IF entry_count(ht, e) > 1
            THEN ProjectFrom(ht, order, k + 1,
                             json_append_member(jobj, ht[e].key, EntryArray(ht, e)))
            ELSE ProjectFrom(ht, order, k + 1,
                             json_append_member(jobj, ht[e].key, EntryJson(ht[e])))

\* xml_htable_to_json_obj iterating with htable_iter_next, which visits
\* every entry and not in insertion order
xml_htable_to_json_obj_Unordered(ht) ==
    ProjectFrom(ht, [k \in 1..Len(ht) |-> Len(ht) + 1 - k], 1, json_new)

xml_htable_to_json_obj(ht) == ProjectFrom(ht, htable_iter_ordered(ht), 1, json_new)

\* JSON nodes the projector allocates: all of the object but the pre-built
\* values it links in
ProjectedNew(ht, jobj) ==
    JsonSize(jobj)
    - SumSizes([i \in 1..Len(ht) |->
                  IF ht[i].type \in {ENTRY_TYPE_NULL, ENTRY_TYPE_STRING} THEN NULL
                  ELSE ht[i].value])

(***************************************************************************)
(* parse_xml_text_node                                                     *)
(***************************************************************************)
\* IsSkipped without the carriage return
IsSkipped_NoCR(c) ==
    \/ c = 32
    \/ (9 <= c /\ c <= 10)

IsSkipped(c) ==
    \/ c = 32
    \/ (9 <= c /\ c <= 10)
    \/ c = 13
    \/ c = 10

\* parse_xml_text_node that never stores the length in *slen
parse_xml_text_node_NoLen(node, st) ==
    IF ~node.hasContent
    THEN [val |-> NULL, slen |-> 0, st |-> st]
    ELSE LET str == SelectSeq(node.content, LAMBDA c : ~IsSkipped(c))
         IN IF Len(str) = 0
            THEN [val |-> NULL, slen |-> 0, st |-> [st EXCEPT !.type = ENTRY_TYPE_NULL]]
            ELSE [val |-> CStr(str), slen |-> 0,
                  st |-> [st EXCEPT !.type = ENTRY_TYPE_STRING,
                                    !.hp = HeapAdd(@, 0, 1, 0)]]

\* Returns the detached string and *slen; sets *type unless content is NULL.
parse_xml_text_node(node, st) ==
    IF ~node.hasContent
    THEN [val |-> NULL, slen |-> 0, st |-> st]
    ELSE LET str == SelectSeq(node.content, LAMBDA c : ~IsSkipped(c))
         IN IF Len(str) = 0
            THEN [val |-> NULL, slen |-> 0, st |-> [st EXCEPT !.type = ENTRY_TYPE_NULL]]
            ELSE [val |-> CStr(str), slen |-> Len(str),
                  st |-> [st EXCEPT !.type = ENTRY_TYPE_STRING,
                                    !.hp = HeapAdd(@, 0, 1, 0)]]

(***************************************************************************)
(* The recursive walk.  st = [type, hp, walks, elems, projs, attrlog]:     *)
(* *type, the heap, and the calls logged so far.                           *)
(***************************************************************************)
RECURSIVE parse_xmlnode(_, _)
RECURSIVE parse_xml_element_node(_, _, _)
RECURSIVE parse_xml_element_attributes(_, _)
RECURSIVE WalkSiblings(_, _, _, _, _)

\* a return of parse_xmlnode: sets nothing, records the call
WalkReturn(list, val, scanned, ht, hp0, st) ==
    [val |-> val,
     st |-> [st EXCEPT !.walks = Append(@,
                [list |-> list, type |-> st.type, val |-> val, scanned |-> scanned,
                 ht |-> ht, hp0 |-> hp0, hp1 |-> st.hp])]]

\* AttrKey without the '@'
AttrKey_Bare(name) == name

\* lines 176-179: '@' is put in front of the attribute's name
AttrKey(name) == "@" \o name

parse_xml_element_attributes(attr, st) ==
    IF attr = <<>>
    THEN [val |-> NULL, st |-> [st EXCEPT !.type = ENTRY_TYPE_NULL]]
    ELSE
      LET RECURSIVE loop(_, _, _)
          loop(i, attrobj, s) ==
              IF i > Len(attr)
              THEN [val |-> attrobj, st |-> [s EXCEPT !.type = ENTRY_TYPE_OBJECT]]
              ELSE LET str == AttrKey(attr[i].name)
                       r == parse_xmlnode(attr[i].children, s)
                   IN IF r.st.type = ENTRY_TYPE_STRING
                      THEN \* json_string_obj(val); free(val); json_append_member
                           loop(i + 1,
                                json_append_member(attrobj, str, json_string_obj(r.val)),
                                [r.st EXCEPT !.hp = HeapAdd(@, 0, 0 - 1, 1)])
                      ELSE \* "attributes: non string type entry!"
                           loop(i + 1, attrobj, r.st)
          res == loop(1, json_new, [st EXCEPT !.hp = HeapAdd(@, 0, 0, 1)])
      IN [val |-> res.val,
          st |-> [res.st EXCEPT !.attrlog = Append(@,
                     [attrs |-> attr, type |-> res.st.type, val |-> res.val])]]

\* InsertBody without the test of line 223
InsertBody_Always(ht, name, has_attr, val, ty) == xml_htable_put(ht, name, val, ty)

\* lines 223-229: the body is not inserted when the element has attributes
\* and *type is ENTRY_TYPE_NULL (val is NULL then: nothing to free)
InsertBody(ht, name, has_attr, val, ty) ==
    IF has_attr = 1 /\ ty = ENTRY_TYPE_NULL THEN ht
    ELSE xml_htable_put(ht, name, val, ty)

parse_xml_element_node(node, ht, st) ==
    LET a == IF node.attrs # <<>>
             THEN LET r == parse_xml_element_attributes(node.attrs, st)
                  IN [ht |-> xml_htable_put(ht, node.name, r.val, r.st.type),
                      st |-> [r.st EXCEPT !.hp = HeapAdd(@, 1, 0, 0)],
                      has_attr |-> 1]
             ELSE [ht |-> ht, st |-> st, has_attr |-> 0]
        b == parse_xmlnode(node.children, a.st)
        ht1 == InsertBody(a.ht, node.name, a.has_attr, b.val, b.st.type)
        hp1 == HeapAdd(b.st.hp, Len(ht1) - Len(a.ht), 0, 0)
    IN [ht |-> ht1,
        has_attr |-> a.has_attr,
        st |-> [b.st EXCEPT !.hp = hp1,
                            !.elems = Append(@,
                               [node |-> node, has_attr |-> a.has_attr,
                                type |-> b.st.type, val |-> b.val,
                                put |-> SubSeq(ht1, Len(ht) + 1, Len(ht1))])]]

\* lines 345-370: the scan of the siblings from the i-th on, with the table
\* ht filled so far; hp0 is the heap when parse_xmlnode was entered
WalkSiblings(node, i, ht, hp0, s) ==
    IF i > Len(node)
    THEN \* lines 363-370
         LET jobj == xml_htable_to_json_obj(ht)
             hp1 == HeapAdd(s.hp, 0, 0, ProjectedNew(ht, jobj))
         IN WalkReturn(node, jobj, Len(node), ht, hp0,
               [s EXCEPT !.type = ENTRY_TYPE_OBJECT,
                         !.hp = xml_htable_free(ht, hp1),
                         !.projs = Append(@, [ht |-> ht, obj |-> jobj])])
    ELSE LET n == node[i]
         IN CASE n.kind = XML_ELEMENT_NODE ->
                   LET r == parse_xml_element_node(n, ht, s)
                   IN WalkSiblings(node, i + 1, r.ht, hp0, r.st)
              [] n.kind = XML_TEXT_NODE ->
                   LET t == parse_xml_text_node(n, s)
                   IN IF t.slen = 0 THEN WalkSiblings(node, i + 1, ht, hp0, t.st)
                      ELSE WalkReturn(node, t.val, i, ht, hp0,
                              [t.st EXCEPT !.hp = xml_htable_free(ht, @)])
              [] OTHER -> WalkSiblings(node, i + 1, ht, hp0, s)

\* parse_xmlnode without the test of lines 337-340
parse_xmlnode_NoNullCheck(node, st) == WalkSiblings(node, 1, xml_htable_init, st.hp, st)

parse_xmlnode(node, st) ==
    IF node = <<>>
    THEN WalkReturn(node, NULL, 0, <<>>, st.hp, [st EXCEPT !.type = ENTRY_TYPE_NULL])
    ELSE WalkSiblings(node, 1, xml_htable_init, st.hp, st)

(***************************************************************************)
(* The documents read: what xmlReadMemory can hand to parse_xml_tree.  The *)
(* children of a document are its root element and comments; text occurs   *)
(* below the root only.                                                    *)
(***************************************************************************)
TextA == Text(<<65>>)
TextB == Text(<<66>>)
TextBlank == Text(<<32, 10>>)
AttrX == <<Attr("x", <<Text(<<49>>)>>)>>
\* tag name and attributes of the elements below the root
Tags == {<<"a", <<>>>>, <<"b", <<>>>>, <<"b", AttrX>>}
Leaves == {TextA, TextB, TextBlank, Comment}

\* the sibling lists that hold exactly k nodes, children included
Forest[k \in 0..MaxNodes] ==
    IF k = 0 THEN {<<>>}
    ELSE LET Tree(j) ==
                 (IF j = 1 THEN Leaves ELSE {})
                 \cup {Element(g[1], g[2], c) : g \in Tags, c \in Forest[j - 1]}
         IN UNION {{<<t>> \o rest : t \in Tree(j), rest \in Forest[k - j]} : j \in 1..k}

StructDocs == {<<Element("a", <<>>, c)>> : c \in UNION {Forest[k] : k \in 0..MaxNodes}}

Chars == {8, 9, 10, 11, 13, 32, 65}
Strings == UNION {[1..n -> Chars] : n \in 0..MaxTextLen}
TextDocs ==
    {<<Element("a", <<>>, <<Text(c)>>)>> : c \in Strings}
    \cup {<<Element("a", <<>>, <<TextNoContent>>)>>,
          <<Element("a", <<>>, <<TextNoContent, TextA>>)>>,
          <<Comment, Element("a", <<>>, <<>>), Comment>>,
          <<Comment, Element("a", AttrX, <<TextBlank>>)>>}

AttrNames == {"id", "x", "y"}
AttrValues == {<<>>, <<Text(<<49>>)>>, <<Text(<<32>>)>>, <<Text(<<32>>), Text(<<50, 32>>)>>}
DistinctNames(as) == \A i, j \in 1..Len(as) : as[i].name = as[j].name => i = j
AttrLists ==
    {as \in UNION {[1..n -> {Attr(nm, v) : nm \in AttrNames, v \in AttrValues}] :
                     n \in 0..MaxAttrs} : DistinctNames(as)}
AttrDocs ==
    {<<Element("item", as, c)>> :
        as \in AttrLists,
        c \in {<<>>, <<Element("id", <<>>, <<>>)>>, <<TextA>>, <<TextBlank>>}}

\* <a><b>1</b><b>2</b></a>, <a x="1"><b/></a>, <a x="1"/>, <a>  \n </a>
ExampleDocs ==
    {<<Element("a", <<>>, <<Element("b", <<>>, <<Text(<<49>>)>>),
                             Element("b", <<>>, <<Text(<<50>>)>>)>>)>>,
     <<Element("a", AttrX, <<Element("b", <<>>, <<>>)>>)>>,
     <<Element("a", AttrX, <<>>)>>,
     <<Element("a", <<>>, <<Text(<<32, 32, 10, 32>>)>>)>>}

Docs == {<<>>} \cup StructDocs \cup TextDocs \cup AttrDocs \cup ExampleDocs

EntryTypes == {ENTRY_TYPE_NULL, ENTRY_TYPE_STRING, ENTRY_TYPE_OBJECT}

(***************************************************************************)
(* parse_xml_tree                                                          *)
(***************************************************************************)
\* `type` is an uninitialized local of parse_xml_tree
Init ==
    /\ doc \in Docs
    /\ pc = "start"
    /\ data = NULL
    /\ type \in EntryTypes
    /\ heap = Heap0
    /\ walks = <<>>
    /\ elems = <<>>
    /\ projs = <<>>
    /\ attrlog = <<>>

\* doc->children == NULL: nothing is converted
NoChildren ==
    /\ pc = "start"
    /\ doc = <<>>
    /\ pc' = "done"
    /\ UNCHANGED <<doc, data, type, heap, walks, elems, projs, attrlog>>

\* data = parse_xmlnode(doc->children, &type)
ParseTree ==
    /\ pc = "start"
    /\ doc # <<>>
    /\ LET r == parse_xmlnode(doc, [type |-> type, hp |-> heap, walks |-> walks,
                                    elems |-> elems, projs |-> projs,
                                    attrlog |-> attrlog])
       IN /\ data' = r.val
          /\ type' = r.st.type
          /\ heap' = r.st.hp
          /\ walks' = r.st.walks
          /\ elems' = r.st.elems
          /\ projs' = r.st.projs
          /\ attrlog' = r.st.attrlog
    /\ pc' = "parsed"
    /\ UNCHANGED doc

\* json_str = json_encode(data); printf; xfree(json_str)
Encode ==
    /\ pc = "parsed"
    /\ pc' = "encoded"
    /\ UNCHANGED <<doc, data, type, heap, walks, elems, projs, attrlog>>

\* json_free(data)
Free ==
    /\ pc = "encoded"
    /\ heap' = HeapAdd(heap, 0, 0, 0 - JsonSize(data))
    /\ pc' = "done"
    /\ UNCHANGED <<doc, data, type, walks, elems, projs, attrlog>>

Next == NoChildren \/ ParseTree \/ Encode \/ Free

Spec == Init /\ [][Next]_vars

(***************************************************************************)
(* What the claims speak of, stated apart from the operators above.        *)
(***************************************************************************)
\* the positions of ht that hold key, in insertion order
PositionsOf(ht, key) ==
    SelectSeq([i \in 1..Len(ht) |-> i], LAMBDA i : ht[i].key = key)

\* the distinct keys of ht, by first insertion
KeysOf(ht) ==
    LET firsts == SelectSeq([i \in 1..Len(ht) |-> i],
                            LAMBDA i : \A j \in 1..(i - 1) : ht[j].key # ht[i].key)
    IN [k \in 1..Len(firsts) |-> ht[firsts[k]].key]

\* the JSON value of an entry: Null when absent, String for a string,
\* otherwise the object built for it
ValueOf(e) ==
    CASE e.type = ENTRY_TYPE_NULL -> [t |-> "Null", s |-> <<>>, elems |-> <<>>, members |-> <<>>]
      [] e.type = ENTRY_TYPE_STRING -> [t |-> "String", s |-> e.value.s, elems |-> <<>>, members |-> <<>>]
      [] OTHER -> e.value

EmptyObject == [t |-> "Object", s |-> <<>>, elems |-> <<>>, members |-> <<>>]

MembersFor(obj, key) == {m \in 1..Len(obj.members) : obj.members[m][1] = key}

Projections == {projs[p] : p \in 1..Len(projs)}
Walks == {walks[w] : w \in 1..Len(walks)}
ElementCalls == {elems[e] : e \in 1..Len(elems)}
AttributeCalls == {attrlog[a] : a \in 1..Len(attrlog)}

RECURSIVE WellShaped(_)
WellShaped(v) ==
    CASE v.t \in {"Null", "String"} -> TRUE
      [] v.t = "Array" ->
           /\ Len(v.elems) >= 2
           /\ \A i \in 1..Len(v.elems) :
                v.elems[i].t \in {"Null", "String", "Object"} /\ WellShaped(v.elems[i])
      [] v.t = "Object" -> \A i \in 1..Len(v.members) : WellShaped(v.members[i][2])
      [] OTHER -> FALSE

C10_OutputShape ==
    /\ \A w \in Walks : w.type = ENTRY_TYPE_OBJECT => WellShaped(w.val)
    /\ \A a \in AttributeCalls : WellShaped(a.val)
    /\ pc \in {"parsed", "encoded"} => WellShaped(data)

\* the result holds an array with a Null, a String and an Object element
C10_Witness ==
    /\ pc = "encoded"
    /\ \E w \in Walks :
         /\ w.type = ENTRY_TYPE_OBJECT
         /\ \E m \in 1..Len(w.val.members) :
              LET v == w.val.members[m][2]
              IN /\ v.t = "Array"
                 /\ {v.elems[i].t : i \in 1..Len(v.elems)} = {"Null", "String", "Object"}

\* the characters the text normalizer drops: space, tab, LF, CR
Whitespace == {32, 9, 10, 13}
Strip(c) == SelectSeq(c, LAMBDA ch : ch \notin Whitespace)

\* a text node whose normalized content is non-empty
Present(n) == n.kind = "text" /\ n.hasContent /\ Strip(n.content) # <<>>

\* the first such node of a sibling list, 0 when it has none
FirstPresent(list) ==
    LET at == {i \in 1..Len(list) : Present(list[i])}
    IN IF at = {} THEN 0 ELSE CHOOSE i \in at : \A j \in at : i <= j

CString(c) == [t |-> "cstr", s |-> c, elems |-> <<>>, members |-> <<>>]
JsonString(c) == [t |-> "String", s |-> c, elems |-> <<>>, members |-> <<>>]
Absent == [t |-> "NULL", s |-> <<>>, elems |-> <<>>, members |-> <<>>]
JsonNull == [t |-> "Null", s |-> <<>>, elems |-> <<>>, members |-> <<>>]

(***************************************************************************)
(* C2 -- as claimed: every element with no attributes, no child nodes and  *)
(* no text contributes an empty JSON object under its tag name, never Null.*)
(***************************************************************************)
C2_Original ==
    \A el \in ElementCalls :
       (el.node.attrs = <<>> /\ el.node.children = <<>>)
          => /\ Len(el.put) = 1
             /\ el.put[1].key = el.node.name
             /\ ValueOf(el.put[1]) = EmptyObject

(***************************************************************************)
(* C2 -- as amended: an element with no attributes and no child nodes      *)
(* inserts one entry with an absent value under its tag name, which is     *)
(* projected to JSON null when it is the key's only entry; the empty       *)
(* object is what an element without attributes contributes when its child *)
(* list is not empty but holds no element and no text with non-blank       *)
(* content.                                                                *)
(***************************************************************************)
C2_EmptyElement ==
    /\ \A el \in ElementCalls :
         el.node.attrs = <<>> =>
           /\ el.node.children = <<>> =>
                el.put = <<[key |-> el.node.name, type |-> ENTRY_TYPE_NULL, value |-> Absent]>>
           /\ (/\ el.node.children # <<>>
               /\ \A i \in 1..Len(el.node.children) :
                    /\ el.node.children[i].kind # "element"
                    /\ ~Present(el.node.children[i]))
                => el.put = <<[key |-> el.node.name, type |-> ENTRY_TYPE_OBJECT,
                               value |-> EmptyObject]>>
    /\ \A p \in Projections :
         \A i \in 1..Len(p.ht) :
            (p.ht[i].type = ENTRY_TYPE_NULL /\ Len(PositionsOf(p.ht, p.ht[i].key)) = 1)
               => \A m \in MembersFor(p.obj, p.ht[i].key) : p.obj.members[m][2] = JsonNull
    /\ (pc = "parsed" /\ doc = <<Element("a", <<>>, <<>>)>>)
         => data.members = << <<"a", JsonNull>> >>

\* <b/> and <a> \n</a> side by side below the root: null and {} in one object
C2_Witness ==
    /\ pc = "parsed"
    /\ \E e1, e2 \in ElementCalls :
         /\ e1.node.attrs = <<>> /\ e1.node.children = <<>>
         /\ e2.node.attrs = <<>> /\ e2.node.children # <<>>
         /\ e2.put = <<[key |-> e2.node.name, type |-> ENTRY_TYPE_OBJECT, value |-> EmptyObject]>>
    /\ \E p \in Projections :
         \E i \in 1..Len(p.ht) :
            /\ p.ht[i].type = ENTRY_TYPE_NULL
            /\ Len(PositionsOf(p.ht, p.ht[i].key)) = 1
            /\ \E m \in MembersFor(p.obj, p.ht[i].key) : p.obj.members[m][2] = JsonNull
            /\ \E j \in 1..Len(p.ht) : ValueOf(p.ht[j]) = EmptyObject

(***************************************************************************)
(* C3 -- Attribute/body collision policy: an element with attributes whose *)
(* body value is absent inserts exactly one entry, the attribute object,   *)
(* under its tag name; an element with attributes and a body that is not   *)
(* absent inserts two entries, the attribute object first and the body     *)
(* second; an element without attributes inserts exactly one entry, its    *)
(* body.  <a x="1"/> yields {"a":{"@x":"1"}}.                              *)
(***************************************************************************)
IsAttributeEntry(e, node) ==
    /\ e.key = node.name
    /\ e.type = ENTRY_TYPE_OBJECT
    /\ e.value.t = "Object"
    /\ \E a \in AttributeCalls : a.attrs = node.attrs /\ a.val = e.value

C3_CollisionPolicy ==
    /\ \A el \in ElementCalls :
         LET body == [key |-> el.node.name, type |-> el.type, value |-> el.val]
         IN /\ (el.node.attrs # <<>> /\ el.type = ENTRY_TYPE_NULL)
                 => Len(el.put) = 1 /\ IsAttributeEntry(el.put[1], el.node)
            /\ (el.node.attrs # <<>> /\ el.type # ENTRY_TYPE_NULL)
                 => /\ Len(el.put) = 2
                    /\ IsAttributeEntry(el.put[1], el.node)
                    /\ el.put[2] = body
            /\ el.node.attrs = <<>> => el.put = <<body>>
    /\ (pc = "parsed" /\ doc = <<Element("a", AttrX, <<>>)>>)
         => data.members = << <<"a", [EmptyObject EXCEPT
                                        !.members = << <<"@x", JsonString(<<49>>)>> >>]>> >>

\* one document with all three cases
C3_Witness ==
    /\ pc = "parsed"
    /\ \E e1, e2, e3 \in ElementCalls :
         /\ e1.node.attrs # <<>> /\ Len(e1.put) = 1
         /\ e2.node.attrs # <<>> /\ Len(e2.put) = 2
         /\ e3.node.attrs = <<>> /\ Len(e3.put) = 1

(***************************************************************************)
(* C4 -- Mixed-content short-circuit: a sibling list that holds a text     *)
(* node with non-empty normalized content returns the String of the first  *)
(* such node's normalized content; the entries of the siblings before it   *)
(* are freed and are no part of the result, and no sibling after it is     *)
(* scanned.                                                                *)
(***************************************************************************)
C4_ShortCircuit ==
    /\ \A w \in Walks :
         LET f == FirstPresent(w.list)
         IN f # 0 =>
              /\ w.type = ENTRY_TYPE_STRING
              /\ w.val = CString(Strip(w.list[f].content))
              /\ w.scanned = f
              /\ w.hp1.entries = w.hp0.entries
    /\ \A el \in ElementCalls :
         LET f == FirstPresent(el.node.children)
         IN f # 0 =>
              el.put[Len(el.put)] = [key |-> el.node.name, type |-> ENTRY_TYPE_STRING,
                                     value |-> CString(Strip(el.node.children[f].content))]

\* an element, then text, then a further sibling
C4_Witness ==
    \E w \in Walks :
       /\ FirstPresent(w.list) = 2
       /\ Len(w.list) = 3
       /\ Len(w.ht) > 0
       /\ w.type = ENTRY_TYPE_STRING
       /\ w.scanned = 2

(***************************************************************************)
(* C5 -- Whitespace collapse: the text normalizer removes every space,     *)
(* tab, LF and CR from a text node's content and keeps the other           *)
(* characters in order; a text node of only those characters (or empty)    *)
(* is skipped and contributes nothing, so an element whose only child is   *)
(* such a text node yields an empty object.                                *)
(***************************************************************************)
C5_WhitespaceCollapse ==
    /\ \A w \in Walks :
         /\ (Len(w.list) = 1 /\ w.list[1].kind = "text" /\ w.list[1].hasContent)
              => IF Strip(w.list[1].content) = <<>>
                 THEN w.type = ENTRY_TYPE_OBJECT /\ w.val = EmptyObject
                 ELSE w.type = ENTRY_TYPE_STRING
                      /\ w.val = CString(Strip(w.list[1].content))
         /\ (w.list # <<>> /\ FirstPresent(w.list) = 0)
              => /\ w.scanned = Len(w.list)
                 /\ w.type = ENTRY_TYPE_OBJECT
                 /\ \A m \in 1..Len(w.val.members) :
                      \E i \in 1..Len(w.list) :
                         w.list[i].kind = "element" /\ w.list[i].name = w.val.members[m][1]
    /\ \A el \in ElementCalls :
         (/\ Len(el.node.children) = 1
          /\ el.node.children[1].kind = "text"
          /\ el.node.children[1].hasContent
          /\ Strip(el.node.children[1].content) = <<>>)
            => el.type = ENTRY_TYPE_OBJECT /\ el.val = EmptyObject
    /\ (pc = "parsed" /\ doc = <<Element("a", <<>>, <<Text(<<32, 32, 10, 32>>)>>)>>)
         => data.members = << <<"a", EmptyObject>> >>

\* a text node with a dropped character between two kept ones
C5_Witness ==
    \E w \in Walks :
       /\ Len(w.list) = 1
       /\ w.list[1].kind = "text"
       /\ Len(w.list[1].content) = 3
       /\ w.list[1].content[2] \in Whitespace
       /\ w.type = ENTRY_TYPE_STRING
       /\ Len(w.val.s) = 2

(***************************************************************************)
(* C7 -- Attribute aggregation and namespacing: for a non-empty attribute  *)
(* list the aggregator returns an Object (type tag Object) whose members   *)
(* are, in document order, ("@" + name, String of the normalized value)    *)
(* for each attribute whose normalized value is present; an attribute      *)
(* whose value is absent adds no member; an empty list gives Null.  The    *)
(* "@" keys are in the attribute object only: a child element of the same  *)
(* bare name appears under the bare name in the body object.               *)
(***************************************************************************)
ExpectedAttrMembers(attrs) ==
    LET kept == SelectSeq(attrs, LAMBDA at : FirstPresent(at.children) # 0)
    IN [k \in 1..Len(kept) |->
          <<"@" \o kept[k].name,
            JsonString(Strip(kept[k].children[FirstPresent(kept[k].children)].content))>>]

C7_AttributeAggregation ==
    /\ \A a \in AttributeCalls :
         /\ a.attrs # <<>>
         /\ a.type = ENTRY_TYPE_OBJECT
         /\ a.val = [EmptyObject EXCEPT !.members = ExpectedAttrMembers(a.attrs)]
    /\ \A el \in ElementCalls :
         /\ el.node.attrs = <<>> => el.has_attr = 0
         /\ el.node.attrs # <<>> =>
              /\ el.has_attr = 1
              /\ el.put[1].type = ENTRY_TYPE_OBJECT
              /\ el.put[1].value
                   = [EmptyObject EXCEPT !.members = ExpectedAttrMembers(el.node.attrs)]
              /\ el.type = ENTRY_TYPE_OBJECT =>
                   \A i \in 1..Len(el.node.children) :
                      el.node.children[i].kind = "element" =>
                        /\ MembersFor(el.val, el.node.children[i].name) # {}
                        /\ MembersFor(el.put[1].value, el.node.children[i].name) = {}
                        /\ MembersFor(el.val, "@" \o el.node.children[i].name) = {}
    /\ LET r == parse_xml_element_attributes(<<>>,
                   [type |-> type, hp |-> heap, walks |-> walks, elems |-> elems,
                    projs |-> projs, attrlog |-> attrlog])
       IN r.val = Absent /\ r.st.type = ENTRY_TYPE_NULL

\* <item id="1" x=""> with a child <id/>: @id in the attribute object, id in
\* the body, and nothing for x
C7_Witness ==
    \E el \in ElementCalls :
       /\ Len(el.node.attrs) = 2
       /\ el.node.attrs[1].name = "id"
       /\ el.node.attrs[2].children = <<>>
       /\ el.node.children = <<Element("id", <<>>, <<>>)>>
       /\ Len(el.put) = 2
       /\ el.put[1].value.members = << <<"@id", JsonString(<<49>>)>> >>
       /\ el.put[2].value.members = << <<"id", JsonNull>> >>

(***************************************************************************)
(* C8 -- as claimed: on every sibling list it is called on, an empty one   *)
(* included, the walker returns a String or an Object, never Null; when no *)
(* element inserted anything and no text ended the scan the result is an   *)
(* empty Object.                                                           *)
(***************************************************************************)
C8_Original ==
    \A w \in Walks :
       /\ w.type \in {ENTRY_TYPE_STRING, ENTRY_TYPE_OBJECT}
       /\ w.type = ENTRY_TYPE_STRING => w.val.t = "cstr"
       /\ w.type = ENTRY_TYPE_OBJECT => w.val.t = "Object"
       /\ (FirstPresent(w.list) = 0 /\ w.ht = <<>>) => w.val = EmptyObject

(***************************************************************************)
(* C8 -- as amended: on every non-empty sibling list the walker returns a  *)
(* String (text short-circuit) or an Object, and the empty Object when no  *)
(* element inserted anything and no text ended the scan; on an empty list  *)
(* (an element without child nodes, an attribute without value nodes) it   *)
(* returns no value, with type tag Null.                                   *)
(***************************************************************************)
C8_ResultKind ==
    \A w \in Walks :
       IF w.list = <<>>
       THEN w.type = ENTRY_TYPE_NULL /\ w.val = Absent
       ELSE /\ w.type \in {ENTRY_TYPE_STRING, ENTRY_TYPE_OBJECT}
            /\ w.type = ENTRY_TYPE_STRING <=> FirstPresent(w.list) # 0
            /\ w.type = ENTRY_TYPE_STRING => w.val.t = "cstr"
            /\ w.type = ENTRY_TYPE_OBJECT => w.val.t = "Object"
            /\ (FirstPresent(w.list) = 0 /\ w.ht = <<>>) => w.val = EmptyObject

\* a call on an empty list, one that returns the empty object, one that
\* returns a string and one that returns a populated object
C8_Witness ==
    /\ \E w \in Walks : w.list = <<>> /\ w.type = ENTRY_TYPE_NULL
    /\ \E w \in Walks : w.list # <<>> /\ w.ht = <<>> /\ w.val = EmptyObject
    /\ \E w \in Walks : w.type = ENTRY_TYPE_STRING
    /\ \E w \in Walks : w.type = ENTRY_TYPE_OBJECT /\ w.ht # <<>>

(***************************************************************************)
(* C9 -- Per-frame ownership: when a walker call returns, on the           *)
(* projection path and on the text short-circuit path, everything the call *)
(* allocated is freed or is part of the returned value; once the result    *)
(* has been freed nothing remains allocated.                               *)
(***************************************************************************)
C9_Ownership ==
    /\ \A w \in Walks :
         /\ w.hp1.entries = w.hp0.entries
         /\ w.hp1.cstr = w.hp0.cstr + (IF w.type = ENTRY_TYPE_STRING THEN 1 ELSE 0)
         /\ w.hp1.json = w.hp0.json + (IF w.type = ENTRY_TYPE_OBJECT THEN JsonSize(w.val) ELSE 0)
    /\ pc = "done" => heap = Heap0

====
